---- MODULE Spec2Model ----
\* A model of the e-commerce RAG engine: the three HTTP handlers of
\* app/api/v1/endpoints.py and the services they call (DocumentService,
\* VectorService, RAGService).  External libraries (pypdf, the text splitter,
\* Chroma, the Gemini client) are modelled by the outcomes they can produce.
\* Requests are served one at a time; /upload and /search run without
\* suspending, /chat suspends at each model invocation.
EXTENDS Integers, Sequences, FiniteSets, TLC

\* ---------------------------------------------------------------- bounds
\* Most chunks the vector store holds.
MaxStore == 2
\* Most chunks the splitter yields for one file.
MaxChunks == 2
\* Most pages of an uploaded PDF.
MaxPages == 1
\* Longest document list handed to _deduplicate in SpecDedup.
MaxDocs == 3

\* ------------------------------------------------------ program constants
\* rag_service.py:94  doc.page_content[:200]
PreviewLen == 200
\* schemas.py:24  k: int = Field(default=3, ge=1, le=10)
KMin == 1
KMax == 10
\* schemas.py:23  query: str = Field(..., min_length=1)
QueryMinLength == 1

\* config.py:18-19
LLM_MODEL == "gemini-2.0-flash"
LLM_FALLBACK_MODELS == <<"gemini-2.0-flash-lite", "gemini-2.5-flash">>

\* ------------------------------------------------------------------ text
\* A text is a sequence of tokens (a character, or a word standing for the
\* characters of a fixed message).  `needle in text` is Python's substring test.
IsSubstring(needle, text) ==
    \E i \in 0..(Len(text) - Len(needle)) :
        SubSeq(text, i + 1, i + Len(needle)) = needle

\* Python's s[:n]
Take(s, n) == SubSeq(s, 1, IF Len(s) < n THEN Len(s) ELSE n)

IsSpace(c) == c \in {" ", "\n"}

RECURSIVE lstrip(_)
lstrip(s) == IF s /= <<>> /\ IsSpace(Head(s)) THEN lstrip(Tail(s)) ELSE s

RECURSIVE rstrip(_)
rstrip(s) ==
    IF s /= <<>> /\ IsSpace(s[Len(s)]) THEN rstrip(SubSeq(s, 1, Len(s) - 1)) ELSE s

\* Python's str.strip()
strip(s) == rstrip(lstrip(s))

RESOURCE_EXHAUSTED == <<"RESOURCE_EXHAUSTED">>
HTTP429 == <<"4", "2", "9">>
Ellipsis == <<".", ".", ".">>

\* Chunk contents: a short one, and two of PreviewLen + 1 characters that
\* differ only in the character after the preview.
ShortText == <<"a">>
LongText == [i \in 1..(PreviewLen + 1) |-> "x"]
LongText2 == [i \in 1..(PreviewLen + 1) |-> IF i = PreviewLen + 1 THEN "y" ELSE "x"]
\* The chunks the splitter yields are drawn from Contents.
Contents == {ShortText, LongText}

\* ------------------------------------------------------------- documents
\* A metadata dict is a set of <<key, value>> pairs; dict.get(key, default).
MetaGet(m, key, default) ==
    IF \E p \in m : p[1] = key THEN (CHOOSE p \in m : p[1] = key)[2] ELSE default

Document(content, metadata) == [page_content |-> content, metadata |-> metadata]

\* ------------------------------------------------------------ exceptions
\* origin names the place that constructed the exception.
None == [type |-> "None", status_code |-> 0, detail |-> <<>>, origin |-> "none"]
Exception(text, origin) ==
    [type |-> "Exception", status_code |-> 0, detail |-> text, origin |-> origin]
HTTPException(status_code, detail, origin) ==
    [type |-> "HTTPException", status_code |-> status_code, detail |-> detail,
     origin |-> origin]
\* str(e) of a plain exception is its message.
str(e) == e.detail

\* ------------------------------------------------------- DocumentService
PDF == "application/pdf"
Filenames == {"catalog.pdf"}
ContentTypes == {PDF, "text/plain"}
\* What page.extract_text() can give: nothing, whitespace, text.
PageTexts == {<<>>, <<" ">>, <<"a">>}
\* A failure of PdfReader / extract_text (<<>>: none).
ParseErrors == {<<>>, <<"EOF marker not found">>}

SeqsUpTo(S, n) == UNION {[1..m -> S] : m \in 0..n}

\* An uploaded file: what the request carries (a filename and a content type,
\* which the client sets as it likes), what pypdf makes of the bytes (a failure,
\* or the text of each page), and the chunks
\* RecursiveCharacterTextSplitter.split_text yields for the text.  What
\* process_file never gets to read of a body is left empty.
NoFile ==
    [filename |-> "catalog.pdf", content_type |-> PDF, parse_error |-> <<>>,
     pages |-> <<>>, split |-> <<>>]

Bodies ==
    {[NoFile EXCEPT !.parse_error = e] : e \in ParseErrors \ {<<>>}}
    \cup {[NoFile EXCEPT !.pages = p] :
            p \in {q \in SeqsUpTo(PageTexts, MaxPages) :
                     \A j \in 1..Len(q) : q[j] \in {<<>>, <<" ">>}}}
    \cup {[NoFile EXCEPT !.pages = p, !.split = c] :
            p \in {q \in SeqsUpTo(PageTexts, MaxPages) :
                     \E j \in 1..Len(q) : q[j] \notin {<<>>, <<" ">>}},
            c \in SeqsUpTo(Contents, MaxChunks) \ {<<>>}}

Files ==
    {[b EXCEPT !.filename = f, !.content_type = t] :
        b \in Bodies, f \in Filenames, t \in ContentTypes}

\* The content-type test left out.
InvalidFileType_never(file) == FALSE

\* document_service.py:35  if file.content_type != "application/pdf"
InvalidFileType(file) == file.content_type /= PDF

\* document_service.py:41-45  the loop over pdf_reader.pages
RECURSIVE ExtractText(_, _)
ExtractText(pages, text_content) ==
    IF pages = <<>> THEN text_content
    ELSE LET extracted == Head(pages) IN
         ExtractText(Tail(pages),
                     IF extracted /= <<>> THEN text_content \o extracted \o <<"\n">>
                     ELSE text_content)

\* The result of a service call: its value, the exception it ends with (None:
\* it returns), and the exceptions raised on the way, at their origin.
Return(value) == [value |-> value, exc |-> None, raised |-> <<>>]
Raise(exc, cause) == [value |-> <<>>, exc |-> exc, raised |-> <<cause>>]

process_file(file) ==
    IF InvalidFileType(file)
    THEN LET e == HTTPException(400, <<"Only PDF files are supported.">>, "DocumentService")
         IN Raise(e, e)
    ELSE IF file.parse_error /= <<>>
    THEN Raise(HTTPException(500, <<"Failed to process PDF: ">> \o file.parse_error,
                             "DocumentService"),
               Exception(file.parse_error, "pypdf"))
    ELSE IF strip(ExtractText(file.pages, <<>>)) = <<>>
    THEN LET e == HTTPException(422,
                      <<"PDF contains no extractable text (may be scanned/image-based).">>,
                      "DocumentService")
         IN Raise(e, e)
    ELSE Return(file.split)

\* --------------------------------------------------------- VectorService
AddErrors == {<<"embedding quota exceeded">>}
AddOutcomes == {<<>>} \cup AddErrors

\* A failed add tried once more.
add_texts_retry(db, texts, metadatas, outcome) ==
    IF outcome = <<>>
    THEN [db |-> db \o [j \in 1..Len(texts) |-> Document(texts[j], metadatas[j])],
          exc |-> None, add_calls |-> 1]
    ELSE [db |-> db, exc |-> Exception(outcome, "vector_db"), add_calls |-> 2]

\* vector_service.py:28-41.  outcome: <<>> when vector_db.add_texts returns,
\* else the message of the exception it raises.  add_calls counts the calls
\* made to vector_db.add_texts.
add_texts(db, texts, metadatas, outcome) ==
    IF outcome = <<>>
    THEN [db |-> db \o [j \in 1..Len(texts) |-> Document(texts[j], metadatas[j])],
          exc |-> None, add_calls |-> 1]
    ELSE [db |-> db, exc |-> Exception(outcome, "vector_db"), add_calls |-> 1]

SearchErrors == {<<"embedding request failed">>}

Injective(f) == \A a, b \in DOMAIN f : f[a] = f[b] => a = b

Min(a, b) == IF a < b THEN a ELSE b

\* What vector_db.similarity_search(query, k=k) can do on a store of n chunks:
\* raise, or return the k nearest chunks (min(k, n) distinct ones, in an order
\* the store decides).  A k below 1 is the store's to refuse or to answer with
\* nothing.
SearchOutcomes(db, k) ==
    {[ok |-> FALSE, err |-> e, hits |-> <<>>] : e \in SearchErrors}
    \cup {[ok |-> TRUE, err |-> <<>>, hits |-> h] :
            h \in {f \in [1..(IF k < 1 THEN 0 ELSE Min(k, Len(db))) -> 1..Len(db)] :
                     Injective(f)}}

\* vector_service.py:43-54: no try/except, the store's exception propagates.
search_similar(db, outcome) ==
    IF outcome.ok
    THEN Return([j \in 1..Len(outcome.hits) |-> db[outcome.hits[j]]])
    ELSE LET e == Exception(outcome.err, "vector_db") IN Raise(e, e)

\* ------------------------------------------------------------ RAGService
\* The fallbacks tried before the primary model.
model_names_fallbacks_first == LLM_FALLBACK_MODELS \o <<LLM_MODEL>>

\* rag_service.py:31
model_names == <<LLM_MODEL>> \o LLM_FALLBACK_MODELS

\* rag_service.py:51-59: the loop, with its seen set and unique list.
RECURSIVE DedupLoop(_, _, _)
DedupLoop(docs, seen, unique) ==
    IF docs = <<>> THEN unique
    ELSE LET doc == Head(docs) IN
         IF doc.page_content \notin seen
         THEN DedupLoop(Tail(docs), seen \cup {doc.page_content}, Append(unique, doc))
         ELSE DedupLoop(Tail(docs), seen, unique)

Reverse(s) == [i \in 1..Len(s) |-> s[Len(s) + 1 - i]]

\* The last occurrence of a content kept instead of the first.
deduplicate_keep_last(docs) == Reverse(DedupLoop(Reverse(docs), {}, <<>>))

deduplicate(docs) == DedupLoop(docs, {}, <<>>)

\* The early return left out.
NoDocs_never(docs) == FALSE

\* rag_service.py:74  if not docs
NoDocs(docs) == docs = <<>>

NoDocsAnswer == <<"I couldn't find any relevant documents to answer your question.">>

\* The content not cut.
Preview_whole(page_content) == page_content \o Ellipsis

\* rag_service.py:94
Preview(page_content) == Take(page_content, PreviewLen) \o Ellipsis

\* rag_service.py:91-97
Sources(unique) ==
    [j \in 1..Len(unique) |->
        [source |-> MetaGet(unique[j].metadata, "source", "unknown"),
         content |-> Preview(unique[j].page_content)]]

\* Every failure taken for a rate limit.
IsRateLimit_any(text) == TRUE

\* rag_service.py:102
IsRateLimit(text) == IsSubstring(RESOURCE_EXHAUSTED, text) \/ IsSubstring(HTTP429, text)

\* Only the first failure remembered.
SetLastError_first(last_error, e) == IF last_error = None THEN e ELSE last_error

\* rag_service.py:101  last_error = e
SetLastError(last_error, e) == e

\* What chain.ainvoke can do: return the model's text, or raise.
LLMOutputs == {<<"It costs ", "4", "2", "9">>,
               <<"I don't have enough information to answer that.">>}
LLMErrors == {<<"RESOURCE_EXHAUSTED">>, <<"4", "2", "9", " Too Many Requests">>,
              <<"4", "2", " deadline exceeded">>}
LLMOutcomes == [ok : BOOLEAN, text : LLMOutputs \cup LLMErrors]
                  \ ([ok : {TRUE}, text : LLMErrors] \cup [ok : {FALSE}, text : LLMOutputs])

\* ------------------------------------------------------------- HTTP layer
\* What the client receives.  origin names the place that chose the status.
NoResponse ==
    [status |-> 0, detail |-> <<>>, answer |-> <<>>, sources |-> <<>>,
     results |-> <<>>, chunks_created |-> 0, origin |-> "none"]

ErrorResponse(e) ==
    [NoResponse EXCEPT !.status = e.status_code, !.detail = e.detail,
                       !.origin = e.origin]

\* endpoints.py:21-27
DocumentResponse(chunks) ==
    [NoResponse EXCEPT !.status = 200, !.chunks_created = Len(chunks),
                       !.origin = "endpoints"]

\* endpoints.py:39-42
SearchResponse(results) ==
    [NoResponse EXCEPT !.status = 200,
                       !.results = [j \in 1..Len(results) |-> results[j].page_content],
                       !.origin = "endpoints"]

\* endpoints.py:52-55
ChatResponse(answer, sources) ==
    [NoResponse EXCEPT !.status = 200, !.answer = answer, !.sources = sources,
                       !.origin = "endpoints"]

\* The error's text dropped from the response.
Translate_generic(e) == HTTPException(500, <<"Internal Server Error">>, "endpoints")

\* endpoints.py:43-44 and 56-57  except Exception as e
Translate(e) == HTTPException(500, str(e), "endpoints")

\* endpoints.py:28-31  except HTTPException: raise / except Exception as e
HandleUpload(e) == IF e.type = "HTTPException" THEN e ELSE Translate(e)

\* schemas.py:21-24: FastAPI refuses a body that fails the model with a 422.
ValidChatRequest(query, k) == Len(query) >= QueryMinLength /\ k >= KMin /\ k <= KMax

ValidationError ==
    [NoResponse EXCEPT !.status = 422, !.detail = <<"validation error">>,
                       !.origin = "FastAPI"]

Queries == {<<>>, <<"q">>}
\* The k a client may send.
KValues == {0, 1, 2, 10, 11}

NoRequest == [op |-> "none", content_type |-> "", query |-> <<>>, k |-> 0]

\* ------------------------------------------------------------------ state
VARIABLES
    store,        \* the chunks the vector database holds, in insertion order
    pc,           \* "idle", or "generating" while /chat awaits a model
    req,          \* the request being served (the last one served, when idle)
    resp,         \* its response (NoResponse while it is being served)
    adds,         \* calls of vector_db.add_texts made for req
    searches,     \* the k of each vector_db.similarity_search made for req
    attempts,     \* the models invoked for req, with what each did
    raised,       \* the exceptions raised for req, at their origin, in order
    caught,       \* the exception that reached the handler's except clause
    docs,         \* generate_answer: docs
    unique_docs,  \* generate_answer: unique_docs
    idx,          \* generate_answer: position of the loop in model_names
    last_error,   \* generate_answer: last_error
    dd_in, dd_once, dd_twice, dd_n   \* _deduplicate applied to an input, twice

chatvars == <<docs, unique_docs, idx, last_error>>
ddvars == <<dd_in, dd_once, dd_twice, dd_n>>
vars == <<store, pc, req, resp, adds, searches, attempts, raised, caught,
          docs, unique_docs, idx, last_error, dd_in, dd_once, dd_twice, dd_n>>

\* The persisted collection the process opens (vector_service.py:21-25): empty,
\* or holding a chunk stored without a source.
InitialStores == {<<>>, <<Document(ShortText, {})>>}

InitRequest ==
    /\ pc = "idle" /\ req = NoRequest /\ resp = NoResponse
    /\ adds = 0 /\ searches = <<>> /\ attempts = <<>> /\ raised = <<>>
    /\ caught = None
    /\ docs = <<>> /\ unique_docs = <<>> /\ idx = 0 /\ last_error = None

Init ==
    /\ store \in InitialStores
    /\ InitRequest
    /\ dd_in = <<>> /\ dd_once = <<>> /\ dd_twice = <<>> /\ dd_n = 0

\* ---------------------------------------------------------------- /upload
\* endpoints.py:13-31
upload_document(db, file, outcome) ==
    LET p == process_file(file) IN
    IF p.exc /= None
    THEN [db |-> db, resp |-> ErrorResponse(HandleUpload(p.exc)), caught |-> p.exc,
          raised |-> p.raised, adds |-> 0]
    ELSE LET chunks == p.value
             metadatas == [j \in 1..Len(chunks) |-> {<<"source", file.filename>>}]
             a == add_texts(db, chunks, metadatas, outcome)
         IN IF a.exc /= None
            THEN [db |-> a.db, resp |-> ErrorResponse(HandleUpload(a.exc)),
                  caught |-> a.exc, raised |-> <<a.exc>>, adds |-> a.add_calls]
            ELSE [db |-> a.db, resp |-> DocumentResponse(chunks), caught |-> None,
                  raised |-> <<>>, adds |-> a.add_calls]

Upload ==
    /\ pc = "idle"
    /\ \E file \in Files, outcome \in AddOutcomes :
         LET r == upload_document(store, file, outcome) IN
            /\ Len(r.db) <= MaxStore
            /\ store' = r.db
            /\ resp' = r.resp
            /\ caught' = r.caught
            /\ raised' = r.raised
            /\ adds' = r.adds
            /\ req' = [NoRequest EXCEPT !.op = "upload", !.content_type = file.content_type]
    /\ searches' = <<>> /\ attempts' = <<>>
    /\ docs' = <<>> /\ unique_docs' = <<>> /\ idx' = 0 /\ last_error' = None
    /\ UNCHANGED <<pc, ddvars>>

\* ---------------------------------------------------------------- /search
\* endpoints.py:34-44
search_documents(db, outcome) ==
    LET s == search_similar(db, outcome) IN
    IF s.exc /= None
    THEN [resp |-> ErrorResponse(Translate(s.exc)), caught |-> s.exc, raised |-> s.raised]
    ELSE [resp |-> SearchResponse(s.value), caught |-> None, raised |-> <<>>]

Search ==
    /\ pc = "idle"
    /\ \E query \in Queries, k \in KValues :
         \E outcome \in SearchOutcomes(store, k) :
            LET r == search_documents(store, outcome) IN
            /\ resp' = r.resp
            /\ caught' = r.caught
            /\ raised' = r.raised
            /\ searches' = <<k>>
            /\ req' = [NoRequest EXCEPT !.op = "search", !.query = query, !.k = k]
    /\ adds' = 0 /\ attempts' = <<>>
    /\ docs' = <<>> /\ unique_docs' = <<>> /\ idx' = 0 /\ last_error' = None
    /\ UNCHANGED <<store, pc, ddvars>>

\* ------------------------------------------------------------------ /chat
\* A body FastAPI refuses never reaches chat_with_docs.
ChatRejected ==
    /\ pc = "idle"
    /\ \E query \in Queries, k \in KValues :
         /\ ~ValidChatRequest(query, k)
         /\ req' = [NoRequest EXCEPT !.op = "chat", !.query = query, !.k = k]
    /\ resp' = ValidationError
    /\ adds' = 0 /\ searches' = <<>> /\ attempts' = <<>> /\ raised' = <<>>
    /\ caught' = None
    /\ docs' = <<>> /\ unique_docs' = <<>> /\ idx' = 0 /\ last_error' = None
    /\ UNCHANGED <<store, pc, ddvars>>

\* endpoints.py:47-57 with rag_service.py:71-83: generate_answer up to its first
\* await.
ChatStart ==
    /\ pc = "idle"
    /\ \E query \in Queries, k \in KValues :
         /\ ValidChatRequest(query, k)
         /\ req' = [NoRequest EXCEPT !.op = "chat", !.query = query, !.k = k]
         /\ searches' = <<k>>
         /\ \E outcome \in SearchOutcomes(store, k) :
              LET s == search_similar(store, outcome) IN
              IF s.exc /= None
              THEN /\ resp' = ErrorResponse(Translate(s.exc))
                   /\ caught' = s.exc /\ raised' = s.raised
                   /\ docs' = <<>> /\ unique_docs' = <<>> /\ idx' = 0
                   /\ pc' = "idle"
              ELSE IF NoDocs(s.value)
              THEN /\ resp' = ChatResponse(NoDocsAnswer, <<>>)
                   /\ caught' = None /\ raised' = <<>>
                   /\ docs' = s.value /\ unique_docs' = <<>> /\ idx' = 0
                   /\ pc' = "idle"
              ELSE /\ resp' = NoResponse
                   /\ caught' = None /\ raised' = <<>>
                   /\ docs' = s.value /\ unique_docs' = deduplicate(s.value)
                   /\ idx' = 1
                   /\ pc' = "generating"
    /\ adds' = 0 /\ attempts' = <<>> /\ last_error' = None
    /\ UNCHANGED <<store, ddvars>>

\* rag_service.py:84-109, one turn of the loop: model_names[idx] is invoked and
\* returns or raises.
ChatInvoke ==
    /\ pc = "generating"
    /\ idx >= 1 /\ idx <= Len(model_names)
    /\ \E outcome \in LLMOutcomes :
         /\ attempts' = Append(attempts, [model |-> model_names[idx], ok |-> outcome.ok,
                                          text |-> outcome.text])
         /\ IF outcome.ok
            THEN /\ resp' = ChatResponse(outcome.text, Sources(unique_docs))
                 /\ pc' = "idle"
                 /\ UNCHANGED <<raised, caught, idx, last_error>>
            ELSE LET e == Exception(outcome.text, "llm")
                     le == SetLastError(last_error, e)
                 IN /\ raised' = Append(raised, e)
                    /\ last_error' = le
                    /\ IF IsRateLimit(str(e))
                       THEN IF idx < Len(model_names)
                            THEN /\ idx' = idx + 1
                                 /\ UNCHANGED <<resp, caught, pc>>
                            ELSE /\ resp' = ErrorResponse(Translate(le))
                                 /\ caught' = le
                                 /\ pc' = "idle"
                                 /\ idx' = idx
                       ELSE /\ resp' = ErrorResponse(Translate(e))
                            /\ caught' = e
                            /\ pc' = "idle"
                            /\ idx' = idx
    /\ UNCHANGED <<store, req, adds, searches, docs, unique_docs, ddvars>>

Next == Upload \/ Search \/ ChatRejected \/ ChatStart \/ ChatInvoke

Spec == Init /\ [][Next]_vars

\* ----------------------------------------------- _deduplicate on its own
\* The documents _deduplicate is tried on: equal contents under different
\* metadata tell a first occurrence from a later one.
DedupDocs ==
    {Document(c, m) : c \in {ShortText, LongText, LongText2},
                      m \in {{}, {<<"source", "catalog.pdf">>}}}

InitDedup ==
    /\ store = <<>>
    /\ InitRequest
    /\ dd_in \in SeqsUpTo(DedupDocs, MaxDocs)
    /\ dd_once = <<>> /\ dd_twice = <<>> /\ dd_n = 0

DedupOnce ==
    /\ dd_n = 0
    /\ dd_once' = deduplicate(dd_in)
    /\ dd_n' = 1
    /\ UNCHANGED <<store, pc, req, resp, adds, searches, attempts, raised, caught,
                   chatvars, dd_in, dd_twice>>

DedupTwice ==
    /\ dd_n = 1
    /\ dd_twice' = deduplicate(dd_once)
    /\ dd_n' = 2
    /\ UNCHANGED <<store, pc, req, resp, adds, searches, attempts, raised, caught,
                   chatvars, dd_in, dd_once>>

NextDedup == DedupOnce \/ DedupTwice

SpecDedup == InitDedup /\ [][NextDedup]_vars

\* ================================================================ claims
\* What the properties below are stated with, written apart from the code's
\* own operators.
Configured == <<"gemini-2.0-flash", "gemini-2.0-flash-lite", "gemini-2.5-flash">>

HasRateLimitSignal(text) ==
    \E i \in 1..Len(text) :
        \/ text[i] = "RESOURCE_EXHAUSTED"
        \/ i + 2 <= Len(text) /\ text[i] = "4" /\ text[i + 1] = "2" /\ text[i + 2] = "9"

RateLimited(attempt) == ~attempt.ok /\ HasRateLimitSignal(attempt.text)

\* The positions of a document list that hold the first occurrence of their
\* content, and the m-th smallest of a set of positions.
FirstIndexes(s) ==
    {i \in 1..Len(s) : \A j \in 1..(i - 1) : s[j].page_content /= s[i].page_content}

NthIndex(F, m) == CHOOSE i \in F : Cardinality({j \in F : j < i}) = m - 1

FirstOccurrences(s) ==
    [m \in 1..Cardinality(FirstIndexes(s)) |-> s[NthIndex(FirstIndexes(s), m)]]

ChatDone == req.op = "chat" /\ pc = "idle"

\* C1: in generate_answer the models are invoked in the configured order
\* (primary, then the fallbacks in list order), only when retrieval returned a
\* document; a model is invoked only after every earlier one failed with a
\* rate-limit signal, none is invoked after one succeeded, and the answer
\* returned is the output of the model that succeeded.
C1_FallbackOrder ==
    /\ Len(attempts) <= Len(Configured)
    /\ \A j \in 1..Len(attempts) : attempts[j].model = Configured[j]
    /\ \A j \in 1..(Len(attempts) - 1) : RateLimited(attempts[j])
    /\ attempts /= <<>> => docs /= <<>>
    /\ pc = "generating" =>
         /\ docs /= <<>>
         /\ Len(attempts) < Len(Configured)
         /\ \A j \in 1..Len(attempts) : RateLimited(attempts[j])
    /\ (attempts /= <<>> /\ attempts[Len(attempts)].ok) =>
         /\ pc = "idle"
         /\ resp.status = 200
         /\ resp.answer = attempts[Len(attempts)].text
    /\ (ChatDone /\ resp.status = 200 /\ docs /= <<>>) =>
         /\ attempts /= <<>>
         /\ attempts[Len(attempts)].ok
         /\ resp.answer = attempts[Len(attempts)].text

\* C1 witness: A and B failed with rate-limit signals, C succeeded, and the
\* answer is C's output.
C1_Witness ==
    /\ ChatDone
    /\ Len(attempts) = 3
    /\ RateLimited(attempts[1]) /\ RateLimited(attempts[2])
    /\ attempts[1].text /= attempts[2].text
    /\ attempts[3].ok
    /\ <<attempts[1].model, attempts[2].model, attempts[3].model>> = Configured
    /\ resp.answer = attempts[3].text

\* C2: a failure of model i that carries no rate-limit signal is surfaced at
\* once (a 500 whose detail is that error's text) and no later model is invoked
\* for the request.
C2_NonRateLimitAborts ==
    \A j \in 1..Len(attempts) :
        (~attempts[j].ok /\ ~HasRateLimitSignal(attempts[j].text)) =>
            /\ j = Len(attempts)
            /\ pc = "idle"
            /\ caught = Exception(attempts[j].text, "llm")
            /\ resp.status = 500
            /\ resp.detail = attempts[j].text
            /\ resp.answer = <<>>

\* C2 witness: the second model failed without a rate-limit signal and the
\* third was never invoked.
C2_Witness ==
    /\ ChatDone
    /\ Len(attempts) = 2
    /\ RateLimited(attempts[1])
    /\ ~attempts[2].ok /\ ~HasRateLimitSignal(attempts[2].text)
    /\ resp.status = 500

\* C3: when the similarity search of generate_answer returns no document the
\* result is the fixed answer with an empty sources list, and no model is
\* invoked.
C3_NoDocsNoModel ==
    (req.op = "chat" /\ searches /= <<>> /\ raised = <<>> /\ docs = <<>>) =>
        /\ pc = "idle"
        /\ attempts = <<>>
        /\ resp.status = 200
        /\ resp.answer =
             <<"I couldn't find any relevant documents to answer your question.">>
        /\ resp.sources = <<>>

\* C3 witness: a /chat whose search ran and found nothing.
C3_Witness ==
    /\ ChatDone
    /\ searches /= <<>> /\ raised = <<>> /\ docs = <<>>
    /\ resp.status = 200

\* C4: when every configured model fails with a rate-limit signal no answer is
\* returned and /chat responds 500 with the text of the error the last model
\* raised.
C4_ExhaustedSurfacesLast ==
    (Len(attempts) = Len(Configured) /\ \A j \in 1..Len(attempts) : RateLimited(attempts[j]))
        => /\ pc = "idle"
           /\ caught = Exception(attempts[Len(attempts)].text, "llm")
           /\ resp.status = 500
           /\ resp.detail = attempts[Len(attempts)].text
           /\ resp.answer = <<>>

\* C4 witness: all three models rate-limited, the last with another text than
\* the first two.
C4_Witness ==
    /\ ChatDone
    /\ Len(attempts) = 3
    /\ \A j \in 1..3 : RateLimited(attempts[j])
    /\ attempts[3].text /= attempts[1].text
    /\ attempts[3].text /= attempts[2].text
    /\ resp.status = 500

\* C5: an upload whose content type is not application/pdf is answered 400,
\* makes no call of the store's add operation and leaves the stored chunks as
\* they were.
C5_NonPdfRejected ==
    [][(pc = "idle" /\ req'.op = "upload" /\ req'.content_type /= "application/pdf")
         => (resp'.status = 400 /\ adds' = 0 /\ store' = store)]_vars

\* C5 witness: a non-PDF upload refused while the store holds uploaded chunks.
C5_Witness ==
    /\ req.op = "upload" /\ req.content_type = "text/plain"
    /\ resp.status = 400
    /\ Len(store) = 2

\* C6: _deduplicate returns the first occurrence of each distinct content, in
\* the order of the input, with no content twice; applied to its own output it
\* returns that output.
C6_DedupFirstOccurrences ==
    /\ dd_n >= 1 =>
         /\ dd_once = FirstOccurrences(dd_in)
         /\ \A a, b \in 1..Len(dd_once) :
              dd_once[a].page_content = dd_once[b].page_content => a = b
    /\ dd_n = 2 => dd_twice = dd_once

\* C6 witness: an input whose first and third documents share a content under
\* different metadata, deduplicated twice.
C6_Witness ==
    /\ dd_n = 2
    /\ Len(dd_in) = 3
    /\ dd_in[1].page_content = dd_in[3].page_content
    /\ dd_in[1] /= dd_in[3]
    /\ dd_in[2].page_content /= dd_in[1].page_content
    /\ dd_once = <<dd_in[1], dd_in[2]>>

\* C7: every similarity search issued to the store for a request uses a k
\* within 1..10.
C7_SearchKWithinBounds ==
    \A j \in 1..Len(searches) : searches[j] >= 1 /\ searches[j] <= 10

\* C8 as claimed: every error reaches the handler as it was raised, only the
\* handlers of endpoints.py choose a status code, and only rate-limit errors of
\* the fallback loop are absorbed.
C8_OnlyHandlersTranslate ==
    /\ \A j \in 1..Len(raised) : raised[j].type /= "HTTPException"
    /\ caught /= None =>
         /\ raised /= <<>>
         /\ caught = raised[Len(raised)]
         /\ resp.status = 500
         /\ resp.detail = caught.detail
         /\ resp.origin = "endpoints"
    /\ \A j \in 1..Len(raised) :
         (j < Len(raised) \/ caught = None) =>
            raised[j].origin = "llm" /\ HasRateLimitSignal(raised[j].detail)

\* C8 as amended: an error raised by VectorService or RAGService reaches the
\* handler unchanged and is answered 500 with its text; DocumentService raises
\* HTTPExceptions of its own (400, 422, and 500 with the parser's message
\* prefixed), which /upload passes through; only rate-limit errors of the
\* fallback loop are absorbed.
C8_ErrorPropagation ==
    /\ caught /= None =>
         /\ pc = "idle"
         /\ raised /= <<>>
         /\ LET cause == raised[Len(raised)] IN
            IF cause.origin \in {"vector_db", "llm"}
            THEN /\ caught = cause
                 /\ cause.type = "Exception"
                 /\ resp.status = 500
                 /\ resp.detail = cause.detail
                 /\ resp.origin = "endpoints"
            ELSE /\ req.op = "upload"
                 /\ caught.type = "HTTPException"
                 /\ caught.origin = "DocumentService"
                 /\ resp.status = caught.status_code
                 /\ resp.detail = caught.detail
                 /\ resp.origin = "DocumentService"
                 /\ IF cause.origin = "pypdf"
                    THEN /\ resp.status = 500
                         /\ resp.detail = <<"Failed to process PDF: ">> \o cause.detail
                    ELSE /\ caught = cause
                         /\ resp.status \in {400, 422}
    /\ \A j \in 1..Len(raised) :
         (j < Len(raised) \/ caught = None) =>
            /\ req.op = "chat"
            /\ raised[j].origin = "llm"
            /\ HasRateLimitSignal(raised[j].detail)
    /\ (pc = "idle" /\ caught = None /\ req.op /= "none") =>
         (resp.status = 200 \/ (req.op = "chat" /\ resp.status = 422 /\ searches = <<>>))

\* C8 witness: the store's add failed during an upload and the handler
\* answered 500 with the error's text.
C8_Witness ==
    /\ req.op = "upload"
    /\ caught /= None /\ caught.origin = "vector_db"
    /\ resp.status = 500 /\ resp.detail = caught.detail /\ resp.origin = "endpoints"

\* C9: when generate_answer succeeds, sources has one entry per chunk that
\* survived deduplication, in their order, whichever model answered; an entry
\* carries the chunk's source filename ("unknown" without one) and the first
\* 200 characters of its content followed by "...".
C9_SourcesOfUniqueDocs ==
    (ChatDone /\ resp.status = 200 /\ docs /= <<>>) =>
        LET survivors == FirstOccurrences(docs) IN
        /\ Len(resp.sources) = Len(survivors)
        /\ \A j \in 1..Len(survivors) :
             LET c == survivors[j].page_content
                 m == survivors[j].metadata
                 p == resp.sources[j].content
                 n == IF Len(c) < 200 THEN Len(c) ELSE 200
             IN /\ resp.sources[j].source =
                     IF \E kv \in m : kv[1] = "source"
                     THEN (CHOOSE kv \in m : kv[1] = "source")[2]
                     ELSE "unknown"
                /\ Len(p) = n + 3
                /\ \A i \in 1..n : p[i] = c[i]
                /\ \A i \in (n + 1)..(n + 3) : p[i] = "."

\* C9 witness: a fallback model answered, deduplication dropped a chunk, and
\* the surviving chunk is longer than its preview.
C9_Witness ==
    /\ ChatDone /\ resp.status = 200
    /\ Len(attempts) >= 2
    /\ Len(docs) = 2 /\ Len(resp.sources) = 1
    /\ Len(docs[1].page_content) > 200
    /\ Len(resp.sources[1].content) = 203

\* C10: within one request the store's add is called at most once, the
\* similarity search at most once and each model at most once; /upload makes
\* only the add, /search only the search; a failed add is answered 500 after
\* that one call.
C10_NoRetry ==
    /\ adds <= 1
    /\ Len(searches) <= 1
    /\ \A a, b \in 1..Len(attempts) : attempts[a].model = attempts[b].model => a = b
    /\ req.op = "upload" => searches = <<>> /\ attempts = <<>>
    /\ req.op \in {"search", "chat"} => adds = 0
    /\ req.op = "search" => attempts = <<>>
    /\ (req.op = "upload" /\ caught.origin = "vector_db") =>
         resp.status = 500 /\ adds = 1

\* C10 witness: an upload whose add failed.
C10_Witness ==
    /\ req.op = "upload"
    /\ caught.origin = "vector_db"
    /\ adds = 1
    /\ resp.status = 500

====
